---- MODULE Spec2Model ----
(***************************************************************************)
(* Model of the /calculate-tax service of src/app.py: the request handler  *)
(* calculate_tax, the cached and retried upstream fetch fetch_tax_data and  *)
(* the calculator compute_tax.                                              *)
(*                                                                          *)
(* Units.  Incomes and bracket limits are whole amounts, a bracket rate is  *)
(* an integer number of thousandths (0.15 is 150), an unrounded tax is an   *)
(* integer number of thousandths, a value rounded to 2 decimals is an       *)
(* integer number of hundredths (total_tax and tax_paid in cents, the       *)
(* effective rate in hundredths of a percent).  round(x, 2) is              *)
(* round-half-to-even on the exact value.  An optional value (a query       *)
(* parameter that may be absent, a local not yet assigned) is the empty     *)
(* sequence or a one-element sequence.                                      *)
(***************************************************************************)
EXTENDS Integers, Sequences, FiniteSets, TLC

VARIABLES
  cache,       \* the module-level LRUCache: <<[key, value]>>, least recently used first
  pc,          \* per request context: "idle", "get_data" (inside the retry loop),
               \* "store" (inside cache[k] = v, SpecThreads only), "done"
  income,      \* per request: the parsed annual_income, <<>> when absent or unparseable
  tax_year,    \* per request: the parsed tax_year, <<>> when absent or unparseable
  tries,       \* per request: upstream requests made by the current fetch_tax_data call
  tax_data,    \* per request: what fetch_tax_data returned, <<>> before or when it raised
  raised,      \* per request: the exception caught at line 117, <<>> when none
  response,    \* per request: the response sent, <<>> before
  last_outcome, \* per request: what the latest upstream request of this call did, <<>> when none
  sleeps       \* per request: the times backoff waited and retried in this call

vars == <<cache, pc, income, tax_year, tries, tax_data, raised, response,
          last_outcome, sleeps>>

----------------------------------------------------------------------------
(* Configuration (config.json) and the environment.                         *)

\* config['cache_max_size']
cache_max_size == 2

\* config['tax_api_max_retries'], the max_tries of backoff.on_exception
tax_api_max_retries == 2

\* config['supported_tax_years']
supported_tax_years == <<2021, 2022, 2023>>

\* The request contexts (threads) that may be serving a request at once.
Requests == {"r1", "r2"}

\* Upstream bodies: the two bracket tables of src/test.py and a JSON body
\* that has no tax_brackets field.
BracketsTwo ==
  [tax_brackets |-> << [min |-> 0, max |-> 50197, rate |-> 150],
                       [min |-> 50197, rate |-> 200] >>]

BracketsOne ==
  [tax_brackets |-> << [min |-> 0, max |-> 50197, rate |-> 150] >>]

NoBrackets == [message |-> "no data"]

UpstreamBodies == {BracketsTwo, BracketsOne, NoBrackets}

\* What one pass through lines 146-148 can do: return a JSON body; raise
\* HTTPError with the response attached (raise_for_status on an error status);
\* raise ConnectionError or Timeout, which carry no response; or fail to
\* decode the body in json().  The decoding error carries no response, and is
\* a RequestException or a plain ValueError depending on the installed
\* requests library, so both are possible.
UpstreamOutcomes ==
  [kind : {"ok"}, body : UpstreamBodies]
    \cup [kind : {"HTTPError"}, status_code : {404, 500}]
    \cup [kind : {"ConnectionError", "Timeout"}]
    \cup [kind : {"JSONDecodeError"}, request_exception : BOOLEAN]

\* Query parameters as parsed by request.args.get(..., type=...): absent or
\* unparseable is <<>>.
IncomeArgs == {<<>>, <<0>>, <<-1>>, <<145000>>}

YearArgs == {<<>>, <<0>>, <<2006>>, <<2021>>, <<2022>>, <<2023>>}

----------------------------------------------------------------------------
(* compute_tax                                                              *)

Min(a, b) == IF a < b THEN a ELSE b

\* round(n / d) to the nearest integer, ties to even (Python's round), d > 0.
RoundHalfEven(n, d) ==
  LET q == n \div d
      r == n % d
  IN  IF 2 * r < d THEN q
      ELSE IF 2 * r > d THEN q + 1
      ELSE IF q % 2 = 0 THEN q ELSE q + 1

\* round(x, 2) of a value given in thousandths, in hundredths.
Round2(x) == RoundHalfEven(x, 10)

\* A calculation that taxes only the bracket the income falls in.
BracketTax_own_bracket_only(inc, bracket) ==
  IF "max" \in DOMAIN bracket
    THEN IF inc > bracket.min /\ inc <= bracket.max
           THEN (inc - bracket.min) * bracket.rate
           ELSE 0
    ELSE IF inc > bracket.min
           THEN (inc - bracket.min) * bracket.rate
           ELSE 0

\* Lines 175-188 for one bracket: the unrounded tax it adds, in thousandths
\* (0 when the bracket is skipped).
BracketTax(inc, bracket) ==
  IF "max" \in DOMAIN bracket
    THEN IF inc > bracket.min
           THEN (Min(inc, bracket.max) - bracket.min) * bracket.rate
           ELSE 0
    ELSE IF inc > bracket.min
           THEN (inc - bracket.min) * bracket.rate
           ELSE 0

\* A breakdown entry whose tax_paid is cut to whole units.
BracketDetail_whole_units(inc, bracket) ==
  IF "max" \in DOMAIN bracket
    THEN [min |-> bracket.min, max |-> bracket.max,
          tax_paid |-> 100 * (BracketTax(inc, bracket) \div 1000)]
    ELSE [min |-> bracket.min,
          tax_paid |-> 100 * (BracketTax(inc, bracket) \div 1000)]

\* Lines 181 and 188 for one bracket: the breakdown entry appended.
BracketDetail(inc, bracket) ==
  IF "max" \in DOMAIN bracket
    THEN [min |-> bracket.min, max |-> bracket.max,
          tax_paid |-> Round2(BracketTax(inc, bracket))]
    ELSE [min |-> bracket.min,
          tax_paid |-> Round2(BracketTax(inc, bracket))]

\* A loop that adds the rounded amount to the running total.
RECURSIVE TaxLoop_sums_rounded(_, _, _)
TaxLoop_sums_rounded(inc, brackets, n) ==
  IF n = 0 THEN <<0, <<>>>>
  ELSE LET prev == TaxLoop_sums_rounded(inc, brackets, n - 1)
           b == brackets[n]
       IN  IF inc > b.min
             THEN <<prev[1] + 10 * Round2(BracketTax(inc, b)),
                    Append(prev[2], BracketDetail(inc, b))>>
             ELSE prev

\* A loop that leaves out the entry of a bracket whose tax is 0.
RECURSIVE TaxLoop_skips_zero(_, _, _)
TaxLoop_skips_zero(inc, brackets, n) ==
  IF n = 0 THEN <<0, <<>>>>
  ELSE LET prev == TaxLoop_skips_zero(inc, brackets, n - 1)
           b == brackets[n]
       IN  IF inc > b.min /\ Round2(BracketTax(inc, b)) # 0
             THEN <<prev[1] + BracketTax(inc, b),
                    Append(prev[2], BracketDetail(inc, b))>>
             ELSE <<prev[1] + BracketTax(inc, b), prev[2]>>

\* The loop of lines 174-188 over brackets[1..n]: <<total_tax, tax_details>>
\* with total_tax the unrounded running sum.
RECURSIVE TaxLoop(_, _, _)
TaxLoop(inc, brackets, n) ==
  IF n = 0 THEN <<0, <<>>>>
  ELSE LET prev == TaxLoop(inc, brackets, n - 1)
           b == brackets[n]
       IN  IF inc > b.min
             THEN <<prev[1] + BracketTax(inc, b),
                    Append(prev[2], BracketDetail(inc, b))>>
             ELSE prev

\* Line 172 raises KeyError when the body has no tax_brackets.
ComputeRaises(data) == "tax_brackets" \notin DOMAIN data

\* A calculation that takes the effective rate from the rounded total.
compute_tax_rate_from_rounded(inc, data) ==
  LET loop == TaxLoop(inc, data.tax_brackets, Len(data.tax_brackets))
  IN  [total_tax |-> Round2(loop[1]),
       tax_details |-> loop[2],
       effective_rate |-> IF inc > 0
                            THEN RoundHalfEven(Round2(loop[1]) * 100, inc)
                            ELSE 0]

\* compute_tax(income, tax_data) for data with tax_brackets.  The effective
\* rate is taken from the unrounded total (line 190), then the total is
\* rounded (line 191).
compute_tax(inc, data) ==
  LET loop == TaxLoop(inc, data.tax_brackets, Len(data.tax_brackets))
  IN  [total_tax |-> Round2(loop[1]),
       tax_details |-> loop[2],
       effective_rate |-> IF inc > 0
                            THEN RoundHalfEven(loop[1] * 10, inc)
                            ELSE 0]

----------------------------------------------------------------------------
(* The LRU cache (cachetools.LRUCache behind @cached, lines 23 and 138).    *)

CachedYears(c) == {c[i].key : i \in 1..Len(c)}

CacheIndex(c, k) == CHOOSE i \in 1..Len(c) : c[i].key = k

CacheValue(c, k) == c[CacheIndex(c, k)].value

Without(c, i) == SubSeq(c, 1, i - 1) \o SubSeq(c, i + 1, Len(c))

\* cache[k] on a hit: the entry becomes the most recently used.
CacheTouch(c, k) ==
  LET i == CacheIndex(c, k) IN Append(Without(c, i), c[i])

\* popitem() while the cache is full: drop least recently used entries until
\* one more fits.
RECURSIVE Evict(_)
Evict(c) ==
  IF Len(c) + 1 > cache_max_size /\ Len(c) > 0 THEN Evict(Tail(c)) ELSE c

\* A lookup that never finds the key.
CacheHit_never(c, k) == FALSE

\* The lookup of @cached: cache[k] succeeds.
CacheHit(c, k) == k \in CachedYears(c)

\* cache[k] = v as @cached does it: a value that cannot fit (ValueError) is
\* dropped; an existing key is replaced without eviction; the key becomes the
\* most recently used.
CacheStore(c, k, v) ==
  IF 1 > cache_max_size THEN c
  ELSE IF k \in CachedYears(c)
    THEN Append(Without(c, CacheIndex(c, k)), [key |-> k, value |-> v])
    ELSE Append(Evict(c), [key |-> k, value |-> v])

----------------------------------------------------------------------------
(* calculate_tax                                                            *)

InSeq(x, s) == \E i \in 1..Len(s) : s[i] = x

\* Python truthiness of a parsed parameter: None and 0 are falsy.
Truthy(arg) == arg # <<>> /\ arg[1] # 0

\* A check of annual_income alone.
MissingParameters_income_only(inc, year) == ~Truthy(inc)

\* Line 103.
MissingParameters(inc, year) == ~(Truthy(inc) /\ Truthy(year))

\* A check that accepts every year.
UnsupportedYear_never(year) == FALSE

\* Line 106.
UnsupportedYear(year) == year = <<>> \/ ~InSeq(year[1], supported_tax_years)

\* Line 104.
MissingResponse ==
  [status |-> 400, body |-> [error |-> "Missing required parameters"]]

\* Line 107: the message is the fixed text followed by the supported years
\* joined with ", ".
UnsupportedResponse ==
  [status |-> 400,
   body |-> [error |-> "Unsupported tax year. Supported years are: ",
             years |-> supported_tax_years]]

\* A handler that puts the exception into the body.
ErrorResponse_detail(exc) ==
  [status |-> 500, body |-> [error |-> exc.kind]]

\* Lines 117-119 for the exception exc.
ErrorResponse(exc) ==
  [status |-> 500, body |-> [error |-> "Internal Server Error"]]

\* What compute_tax raises on data, if anything (line 172).
ResultRaised(data) ==
  IF ComputeRaises(data) THEN <<[kind |-> "KeyError"]>> ELSE <<>>

\* Lines 111-119 once fetch_tax_data has returned data.
ResultResponse(inc, data) ==
  IF ComputeRaises(data) THEN ErrorResponse(ResultRaised(data)[1])
  ELSE [status |-> 200, body |-> compute_tax(inc, data)]

Init ==
  /\ cache = <<>>
  /\ pc = [r \in Requests |-> "idle"]
  /\ income = [r \in Requests |-> <<>>]
  /\ tax_year = [r \in Requests |-> <<>>]
  /\ tries = [r \in Requests |-> 0]
  /\ tax_data = [r \in Requests |-> <<>>]
  /\ raised = [r \in Requests |-> <<>>]
  /\ response = [r \in Requests |-> <<>>]
  /\ last_outcome = [r \in Requests |-> <<>>]
  /\ sleeps = [r \in Requests |-> 0]

\* A request arrives: lines 100-107, and for a valid request the cache
\* lookup of @cached (line 138), with lines 111-116 on a hit.
calculate_tax(r, inc, year) ==
  /\ pc[r] = "idle"
  /\ income' = [income EXCEPT ![r] = inc]
  /\ tax_year' = [tax_year EXCEPT ![r] = year]
  /\ UNCHANGED <<tries, last_outcome, sleeps>>
  /\ IF MissingParameters(inc, year)
       THEN /\ response' = [response EXCEPT ![r] = <<MissingResponse>>]
            /\ pc' = [pc EXCEPT ![r] = "done"]
            /\ UNCHANGED <<cache, tax_data, raised>>
     ELSE IF UnsupportedYear(year)
       THEN /\ response' = [response EXCEPT ![r] = <<UnsupportedResponse>>]
            /\ pc' = [pc EXCEPT ![r] = "done"]
            /\ UNCHANGED <<cache, tax_data, raised>>
     ELSE IF CacheHit(cache, year[1])
       THEN LET data == CacheValue(cache, year[1])
            IN  /\ cache' = CacheTouch(cache, year[1])
                /\ tax_data' = [tax_data EXCEPT ![r] = <<data>>]
                /\ raised' = [raised EXCEPT ![r] = ResultRaised(data)]
                /\ response' = [response EXCEPT ![r] = <<ResultResponse(inc[1], data)>>]
                /\ pc' = [pc EXCEPT ![r] = "done"]
     ELSE /\ pc' = [pc EXCEPT ![r] = "get_data"]
          /\ UNCHANGED <<cache, tax_data, raised, response>>

\* A giveup that never gives up.
GiveUp_never(outcome) == FALSE

\* giveup of line 142.
GiveUp(outcome) ==
  outcome.kind = "HTTPError" /\ outcome.status_code < 500

\* The exceptions backoff.on_exception handles (line 140); any other
\* exception leaves the retry loop at once.
Retryable(outcome) ==
  \/ outcome.kind \in {"HTTPError", "ConnectionError", "Timeout"}
  \/ outcome.kind = "JSONDecodeError" /\ outcome.request_exception

\* A retry loop that allows one attempt too many.
StopRetrying_one_more(outcome, n) ==
  ~Retryable(outcome) \/ GiveUp(outcome) \/ n > tax_api_max_retries

\* backoff's test after the n-th attempt raised: re-raise on giveup or when
\* this was the max_tries-th attempt, else wait and call again.
StopRetrying(outcome, n) ==
  ~Retryable(outcome) \/ GiveUp(outcome) \/ n = tax_api_max_retries

\* A cache that also stores the body of a failed attempt.
CacheAfterAttempt_store_errors(c, k, outcome) ==
  CacheStore(c, k, IF outcome.kind = "ok" THEN outcome.body
                   ELSE [message |-> outcome.kind])

\* A cache that is never filled.
CacheAfterAttempt_never(c, k, outcome) == c

\* A cache that stores only a body the calculator can use.
CacheAfterAttempt_valid_only(c, k, outcome) ==
  IF outcome.kind = "ok" /\ "tax_brackets" \in DOMAIN outcome.body
    THEN CacheStore(c, k, outcome.body) ELSE c

\* The cache after one attempt for year k: @cached stores what get_data
\* returned, and nothing when it raised.
CacheAfterAttempt(c, k, outcome) ==
  IF outcome.kind = "ok" THEN CacheStore(c, k, outcome.body) ELSE c

\* A count that stays at 1 once the first attempt is made.
Attempt_uncounted(n) == IF n = 0 THEN 1 ELSE n

\* backoff's count of the attempts made, after one more attempt.
Attempt(n) == n + 1

\* One attempt of get_data (lines 143-148) inside the backoff loop, with what
\* follows it without further upstream traffic: the cache store of @cached on
\* success and lines 111-119.
get_data(r, outcome) ==
  /\ pc[r] = "get_data"
  /\ tries' = [tries EXCEPT ![r] = Attempt(tries[r])]
  /\ last_outcome' = [last_outcome EXCEPT ![r] = <<outcome>>]
  /\ cache' = CacheAfterAttempt(cache, tax_year[r][1], outcome)
  /\ UNCHANGED <<income, tax_year>>
  /\ IF outcome.kind = "ok"
       THEN /\ tax_data' = [tax_data EXCEPT ![r] = <<outcome.body>>]
            /\ raised' = [raised EXCEPT ![r] = ResultRaised(outcome.body)]
            /\ response' = [response EXCEPT ![r] =
                              <<ResultResponse(income[r][1], outcome.body)>>]
            /\ pc' = [pc EXCEPT ![r] = "done"]
            /\ UNCHANGED sleeps
     ELSE IF StopRetrying(outcome, Attempt(tries[r]))
       THEN /\ raised' = [raised EXCEPT ![r] = <<outcome>>]
            /\ response' = [response EXCEPT ![r] = <<ErrorResponse(outcome)>>]
            /\ pc' = [pc EXCEPT ![r] = "done"]
            /\ UNCHANGED <<tax_data, sleeps>>
     ELSE /\ sleeps' = [sleeps EXCEPT ![r] = Attempt(tries[r])]
          /\ UNCHANGED <<tax_data, raised, response, pc>>

\* The response has been delivered; the context is free for the next request.
finish(r) ==
  /\ pc[r] = "done"
  /\ pc' = [pc EXCEPT ![r] = "idle"]
  /\ income' = [income EXCEPT ![r] = <<>>]
  /\ tax_year' = [tax_year EXCEPT ![r] = <<>>]
  /\ tries' = [tries EXCEPT ![r] = 0]
  /\ tax_data' = [tax_data EXCEPT ![r] = <<>>]
  /\ raised' = [raised EXCEPT ![r] = <<>>]
  /\ response' = [response EXCEPT ![r] = <<>>]
  /\ last_outcome' = [last_outcome EXCEPT ![r] = <<>>]
  /\ sleeps' = [sleeps EXCEPT ![r] = 0]
  /\ UNCHANGED cache

Next ==
  \E r \in Requests :
    \/ \E inc \in IncomeArgs, year \in YearArgs : calculate_tax(r, inc, year)
    \/ \E outcome \in UpstreamOutcomes : get_data(r, outcome)
    \/ finish(r)

\* Requests in any interleaving, each cache operation (a lookup, a store)
\* taken as one step.
Spec == Init /\ [][Next]_vars

----------------------------------------------------------------------------
(* The same service with the store of @cached as the threads of the server *)
(* run it.  cache is created without a lock (line 23) and @cached is given  *)
(* none (line 138), so cache[k] = v is ordinary code another thread can     *)
(* interleave with.  Its two halves are separate steps here: making room    *)
(* (Cache.__setitem__ up to the popitem loop), then writing the entry.      *)
(* Finer interleavings exist; every behaviour below is one the code has.    *)

\* First half of cache[k] = v: a new key makes room while the cache is full.
StoreMakeRoom(c, k) ==
  IF 1 > cache_max_size \/ k \in CachedYears(c) THEN c ELSE Evict(c)

\* Second half of cache[k] = v: the entry is written and becomes the most
\* recently used.
StoreWrite(c, k, v) ==
  IF 1 > cache_max_size THEN c
  ELSE IF k \in CachedYears(c)
    THEN Append(Without(c, CacheIndex(c, k)), [key |-> k, value |-> v])
    ELSE Append(c, [key |-> k, value |-> v])

\* One attempt of get_data; on success the wrapper of @cached holds the
\* value and has made room for it (pc "store").
get_data_unlocked(r, outcome) ==
  IF outcome.kind = "ok"
    THEN /\ pc[r] = "get_data"
         /\ tries' = [tries EXCEPT ![r] = Attempt(tries[r])]
         /\ last_outcome' = [last_outcome EXCEPT ![r] = <<outcome>>]
         /\ tax_data' = [tax_data EXCEPT ![r] = <<outcome.body>>]
         /\ cache' = StoreMakeRoom(cache, tax_year[r][1])
         /\ pc' = [pc EXCEPT ![r] = "store"]
         /\ UNCHANGED <<income, tax_year, raised, response, sleeps>>
    ELSE get_data(r, outcome)

\* The wrapper writes the entry and returns; lines 111-119 follow.
cache_write(r) ==
  /\ pc[r] = "store"
  /\ cache' = StoreWrite(cache, tax_year[r][1], tax_data[r][1])
  /\ raised' = [raised EXCEPT ![r] = ResultRaised(tax_data[r][1])]
  /\ response' = [response EXCEPT ![r] =
                    <<ResultResponse(income[r][1], tax_data[r][1])>>]
  /\ pc' = [pc EXCEPT ![r] = "done"]
  /\ UNCHANGED <<income, tax_year, tries, tax_data, last_outcome, sleeps>>

ThreadsNext ==
  \E r \in Requests :
    \/ \E inc \in IncomeArgs, year \in YearArgs : calculate_tax(r, inc, year)
    \/ \E outcome \in UpstreamOutcomes : get_data_unlocked(r, outcome)
    \/ cache_write(r)
    \/ finish(r)

SpecThreads == Init /\ [][ThreadsNext]_vars

----------------------------------------------------------------------------
(* compute_tax called on its own, as src/test.py does with fetch_tax_data   *)
(* patched: income and bracket table are the caller's, and response[r]      *)
(* holds the returned (total_tax, tax_details, effective_rate).             *)

ComputeIncomes == {-1, 0, 1, 2, 3, 4, 5, 7, 50198, 145000}

ComputeRates == {0, 105, 205}

\* Bracket tables that follow the data model: ascending, contiguous, only
\* the last bracket may omit max.
OneBracket(r1) == [tax_brackets |-> << [min |-> 0, rate |-> r1] >>]

TwoBrackets(c, r1, r2) ==
  [tax_brackets |-> << [min |-> 0, max |-> c, rate |-> r1],
                       [min |-> c, rate |-> r2] >>]

ThreeBrackets(c, d, r1, r2, r3) ==
  [tax_brackets |-> << [min |-> 0, max |-> c, rate |-> r1],
                       [min |-> c, max |-> d, rate |-> r2],
                       [min |-> d, rate |-> r3] >>]

\* A table whose last bracket is bounded too.
ClosedBrackets(c, d, r1, r2) ==
  [tax_brackets |-> << [min |-> 0, max |-> c, rate |-> r1],
                       [min |-> c, max |-> d, rate |-> r2] >>]

\* A table outside the data model: a negative rate.
RebateBrackets ==
  [tax_brackets |-> << [min |-> 0, max |-> 2, rate |-> 205],
                       [min |-> 2, rate |-> -105] >>]

ComputeData ==
  {BracketsTwo, BracketsOne, RebateBrackets}
    \cup {OneBracket(r1) : r1 \in ComputeRates}
    \cup {TwoBrackets(c, r1, r2) : c \in {1, 3}, r1 \in ComputeRates, r2 \in ComputeRates}
    \cup {ThreeBrackets(1, 3, 205, r2, r3) : r2 \in ComputeRates, r3 \in ComputeRates}
    \cup {ClosedBrackets(2, 4, r1, r2) : r1 \in ComputeRates, r2 \in ComputeRates}

\* compute_tax(inc, data) is called and returns.
compute(r, inc, data) ==
  /\ pc[r] = "idle"
  /\ income' = [income EXCEPT ![r] = <<inc>>]
  /\ tax_data' = [tax_data EXCEPT ![r] = <<data>>]
  /\ response' = [response EXCEPT ![r] = <<compute_tax(inc, data)>>]
  /\ pc' = [pc EXCEPT ![r] = "done"]
  /\ UNCHANGED <<cache, tax_year, tries, raised, last_outcome, sleeps>>

ComputeNext ==
  \E r \in Requests :
    \/ \E inc \in ComputeIncomes, data \in ComputeData : compute(r, inc, data)
    \/ finish(r)

SpecCompute == Init /\ [][ComputeNext]_vars

----------------------------------------------------------------------------
(* The service with the scheduling its liveness rests on: an upstream call  *)
(* that has been made returns or raises, and the wait backoff puts between  *)
(* two attempts ends.  requests.get is called without a timeout (line 146), *)
(* so the first is a hypothesis about the upstream, not something the code  *)
(* secures.  Nothing is assumed of the arrival of requests, of the delivery *)
(* of responses, or of the other request's progress.  Parameters are fewer  *)
(* than in Spec.                                                            *)

LiveIncomeArgs == {<<>>, <<145000>>}

LiveYearArgs == {<<2006>>, <<2021>>, <<2022>>}

LiveNext ==
  \E r \in Requests :
    \/ \E inc \in LiveIncomeArgs, year \in LiveYearArgs : calculate_tax(r, inc, year)
    \/ \E outcome \in UpstreamOutcomes : get_data(r, outcome)
    \/ finish(r)

LiveSpec ==
  /\ Init
  /\ [][LiveNext]_vars
  /\ \A r \in Requests : WF_vars(\E outcome \in UpstreamOutcomes : get_data(r, outcome))

----------------------------------------------------------------------------
(* Claims.                                                                  *)

Keys(c) == {c[i].key : i \in 1..Len(c)}

Values(c, k) == {c[i].value : i \in {j \in 1..Len(c) : c[j].key = k}}

Supported(year) == \E i \in 1..Len(supported_tax_years) : supported_tax_years[i] = year

InternalServerError ==
  [status |-> 500, body |-> [error |-> "Internal Server Error"]]

\* The step is r's successful return from an upstream attempt.
FetchSucceeds(r) == pc[r] = "get_data" /\ pc'[r] = "done" /\ tax_data'[r] # <<>>

\* The step is r's arrival with parameters that pass validation.
ValidArrival(r) ==
  /\ pc[r] = "idle" /\ pc'[r] # "idle"
  /\ income'[r] # <<>> /\ income'[r][1] # 0
  /\ tax_year'[r] # <<>> /\ Supported(tax_year'[r][1])

\* C1, first part: a successful fetch for year Y leaves Y in the cache with
\* the data fetched, as the most recently used entry.
C1_Stored(r) ==
  FetchSucceeds(r) =>
    /\ Len(cache') > 0
    /\ cache'[Len(cache')] = [key |-> tax_year[r][1], value |-> tax_data'[r][1]]

\* C1, second part: a fetch for a year that is in the cache makes no
\* upstream request, returns the cached data and keeps the entry.
C1_Hit(r) ==
  (ValidArrival(r) /\ tax_year'[r][1] \in Keys(cache)) =>
    /\ pc'[r] = "done"
    /\ tries'[r] = 0
    /\ last_outcome'[r] = <<>>
    /\ tax_data'[r] # <<>>
    /\ Values(cache, tax_year'[r][1]) = {tax_data'[r][1]}
    /\ Values(cache', tax_year'[r][1]) = {tax_data'[r][1]}

\* C1, third part: a year leaves the cache only as the least recently used
\* entry of a full cache, when a fetch stores another year.
C1_OnlyEviction ==
  \A i \in 1..Len(cache) :
    cache[i].key \notin Keys(cache') =>
      /\ i = 1
      /\ Len(cache) = cache_max_size
      /\ \E r \in Requests : FetchSucceeds(r) /\ tax_year[r][1] \notin Keys(cache)

C2_FailedFetchLeavesCache ==
  [][\A r \in Requests :
       ( /\ pc[r] = "get_data" \/ (pc[r] = "idle" /\ pc'[r] = "get_data")
         /\ pc'[r] # pc[r] \/ tries'[r] # tries[r]
         /\ ~FetchSucceeds(r) )
       => cache' = cache]_vars

C2_Witness ==
  \E r \in Requests :
    /\ pc[r] = "done" /\ response[r][1].status = 500
    /\ raised[r][1].kind \in {"HTTPError", "ConnectionError", "Timeout"}
    /\ Len(cache) = cache_max_size

ClientSide(o) == o.kind = "HTTPError" /\ o.status_code < 500

\* C3: when the upstream answers with a status below 500 that raises, the
\* fetch stops on that answer: it makes no further request (one request in
\* all when no transient failure came before), the error is the one that
\* reaches the handler, and the endpoint answers 500.
C3_ClientErrorNotRetried ==
  \A r \in Requests :
    (last_outcome[r] # <<>> /\ ClientSide(last_outcome[r][1])) =>
      /\ pc[r] = "done"
      /\ raised[r] = last_outcome[r]
      /\ tax_data[r] = <<>>
      /\ response[r] = <<InternalServerError>>
      /\ tries[r] = sleeps[r] + 1
      /\ (sleeps[r] = 0 => tries[r] = 1)

C3_Witness ==
  \E r \in Requests :
    /\ pc[r] = "done" /\ tries[r] = 1
    /\ last_outcome[r] = <<[kind |-> "HTTPError", status_code |-> 404]>>
    /\ response[r][1].status = 500

Transient(o) ==
  \/ o.kind \in {"ConnectionError", "Timeout"}
  \/ o.kind = "HTTPError" /\ o.status_code >= 500

\* C4: a network error, a timeout or a status >= 500 is retried; one fetch
\* never makes more than tax_api_max_retries upstream requests; and when the
\* last allowed attempt fails transiently too, the error is escalated after
\* exactly that many requests.
C4_TransientRetriedUpToMax ==
  \A r \in Requests :
    /\ tries[r] <= tax_api_max_retries
    /\ (last_outcome[r] # <<>> /\ Transient(last_outcome[r][1])) =>
         IF tries[r] < tax_api_max_retries
           THEN pc[r] = "get_data" /\ raised[r] = <<>> /\ response[r] = <<>>
                /\ sleeps[r] = tries[r]
           ELSE pc[r] = "done" /\ raised[r] = last_outcome[r]
                /\ response[r] = <<InternalServerError>>
                /\ tries[r] = tax_api_max_retries

C4_Witness ==
  \E r \in Requests :
    /\ pc[r] = "done" /\ tries[r] = tax_api_max_retries
    /\ sleeps[r] = tax_api_max_retries - 1
    /\ last_outcome[r] = <<[kind |-> "Timeout"]>>
    /\ response[r][1].status = 500

\* The step is an attempt of r that failed and is retried.
Retried(r) == pc[r] = "get_data" /\ pc'[r] = "get_data" /\ tries'[r] # tries[r]

\* C5: when transient failures are followed by a successful response with
\* bracket data before the attempt limit, the request answers 200 with the
\* result computed from that response, and that response's data is what is
\* stored for the year; the failed attempts store nothing.
C5_RetryRecovers ==
  [][\A r \in Requests :
       /\ Retried(r) => cache' = cache
       /\ ( /\ FetchSucceeds(r)
            /\ sleeps[r] >= 1
            /\ last_outcome'[r][1].kind = "ok"
            /\ "tax_brackets" \in DOMAIN last_outcome'[r][1].body )
          => /\ tax_data'[r] = <<last_outcome'[r][1].body>>
             /\ raised'[r] = <<>>
             /\ response'[r] =
                  <<[status |-> 200,
                     body |-> compute_tax(income[r][1], last_outcome'[r][1].body)]>>
             /\ Values(cache', tax_year[r][1]) = {last_outcome'[r][1].body}
             /\ (income[r][1] = 145000 /\ tax_data'[r] = <<BracketsOne>>)
                  => /\ response'[r][1].body.total_tax = 752955
                     /\ response'[r][1].body.effective_rate = 519
                     /\ response'[r][1].body.tax_details =
                          <<[min |-> 0, max |-> 50197, tax_paid |-> 752955]>>]_vars

C5_Witness ==
  \E r \in Requests :
    /\ pc[r] = "done" /\ sleeps[r] >= 1 /\ tries[r] = sleeps[r] + 1
    /\ income[r] = <<145000>> /\ tax_data[r] = <<BracketsOne>>
    /\ response[r][1].status = 200
    /\ response[r][1].body.total_tax = 752955
    /\ Values(cache, tax_year[r][1]) = {BracketsOne}

\* C6: after any sequence of requests the cache holds at most cache_max_size
\* entries and at most one entry per tax year.
C6_CacheBounded ==
  /\ Len(cache) <= cache_max_size
  /\ \A i, j \in 1..Len(cache) : cache[i].key = cache[j].key => i = j

\* C7: for every supported tax year and every annual_income <= 0, a request
\* that did not fail upstream produces a result whose total_tax and
\* effective_rate are 0.
C7_NonPositiveIncomeZeroTax ==
  \A r \in Requests :
    ( /\ pc[r] = "done"
      /\ income[r] # <<>> /\ income[r][1] <= 0
      /\ tax_year[r] # <<>> /\ Supported(tax_year[r][1])
      /\ raised[r] = <<>> )
    => /\ response[r][1].status = 200
       /\ response[r][1].body.total_tax = 0
       /\ response[r][1].body.effective_rate = 0

\* C8: a request in which annual_income or tax_year is absent or not
\* parseable is answered 400 with exactly {error: "Missing required
\* parameters"}, whatever the other parameter is.
C8_MissingParameters ==
  \A r \in Requests :
    (pc[r] = "done" /\ (income[r] = <<>> \/ tax_year[r] = <<>>)) =>
      /\ response[r] =
           <<[status |-> 400, body |-> [error |-> "Missing required parameters"]]>>
      /\ tries[r] = 0

C8_Witness ==
  \E r \in Requests :
    /\ pc[r] = "done" /\ income[r] = <<145000>> /\ tax_year[r] = <<>>
    /\ response[r][1].body.error = "Missing required parameters"

\* C9: a request whose two parameters are present and parseable but whose
\* tax_year is not a supported year is answered 400 with the 'Unsupported tax
\* year' message listing every supported year.
C9_UnsupportedYear ==
  \A r \in Requests :
    ( /\ pc[r] = "done"
      /\ income[r] # <<>> /\ tax_year[r] # <<>>
      /\ ~Supported(tax_year[r][1]) )
    => /\ response[r][1].status = 400
       /\ response[r][1].body =
            [error |-> "Unsupported tax year. Supported years are: ",
             years |-> supported_tax_years]

\* C10: for a request that passed validation, every failure during fetch or
\* compute gives status 500 with exactly {error: "Internal Server Error"},
\* the same for every cause.
C10_FailuresAnswer500 ==
  \A r \in Requests :
    (pc[r] = "done" /\ raised[r] # <<>>) =>
      /\ response[r] = <<InternalServerError>>
      /\ income[r] # <<>> /\ income[r][1] # 0
      /\ tax_year[r] # <<>> /\ Supported(tax_year[r][1])

C10_Witness ==
  \E r, q \in Requests :
    /\ pc[r] = "done" /\ pc[q] = "done"
    /\ raised[r] = <<[kind |-> "KeyError"]>>
    /\ raised[q] = <<[kind |-> "HTTPError", status_code |-> 404]>>
    /\ response[r] = response[q]

\* C11: under any interleaving of concurrent requests, once no request is
\* inside the cache store the cache holds at most one entry per year and at
\* most cache_max_size entries, and every entry is a body the upstream
\* returned, stored under a supported year.
C11_ConcurrentCacheSafe ==
  (\A r \in Requests : pc[r] \in {"idle", "done"}) =>
    /\ Len(cache) <= cache_max_size
    /\ \A i, j \in 1..Len(cache) : cache[i].key = cache[j].key => i = j
    /\ \A i \in 1..Len(cache) :
         Supported(cache[i].key) /\ cache[i].value \in UpstreamBodies

\* The brackets of a table that income exceeds the min of, in table order.
Contributing(inc, brackets) ==
  SelectSeq(brackets, LAMBDA b : inc > b.min)

\* The amount of a bracket as section 4.2 of the specification states it, in
\* thousandths.
SliceTax(inc, b) ==
  IF "max" \in DOMAIN b
    THEN ((IF inc < b.max THEN inc ELSE b.max) - b.min) * b.rate
    ELSE (inc - b.min) * b.rate

\* The sum of f over the elements of a sequence.
RECURSIVE SeqSum(_, _)
SeqSum(f(_), sq) ==
  IF sq = <<>> THEN 0 ELSE f(Head(sq)) + SeqSum(f, Tail(sq))

\* The unrounded total of a table.
ExactTotal(inc, brackets) ==
  LET amount(b) == SliceTax(inc, b) IN SeqSum(amount, Contributing(inc, brackets))

\* q hundredths is x thousandths rounded to 2 decimals (ties to even).
IsRounded2(x, q) ==
  /\ 2 * (x - 10 * q) \in -10..10
  /\ (2 * (x - 10 * q) \in {-10, 10}) => q % 2 = 0

PaidSum(details) ==
  LET paid(d) == d.tax_paid IN SeqSum(paid, details)

Computed(r) == pc[r] = "done" /\ response[r] # <<>>

\* C12: total_tax is the unrounded sum of the contributing brackets' amounts
\* rounded once to 2 decimals; each tax_paid is its own bracket's amount
\* rounded to 2 decimals; rounded per-bracket values never enter the sum, for
\* bounded and open-ended brackets alike.
C12_TotalRoundedOnce ==
  \A r \in Requests :
    Computed(r) =>
      LET inc == income[r][1]
          brackets == tax_data[r][1].tax_brackets
          used == Contributing(inc, brackets)
          result == response[r][1]
      IN  /\ IsRounded2(ExactTotal(inc, brackets), result.total_tax)
          /\ Len(result.tax_details) = Len(used)
          /\ \A i \in 1..Len(used) :
               IsRounded2(SliceTax(inc, used[i]), result.tax_details[i].tax_paid)

\* A bounded and an open-ended bracket both contributed and the rounded
\* parts do not add up to the total.
C12_Witness ==
  \E r \in Requests :
    /\ Computed(r)
    /\ Len(response[r][1].tax_details) = 2
    /\ "max" \notin DOMAIN response[r][1].tax_details[2]
    /\ PaidSum(response[r][1].tax_details) # response[r][1].total_tax

Abs(x) == IF x < 0 THEN -x ELSE x

\* C13: the sum of the tax_paid values of tax_details differs from total_tax
\* by at most (number of brackets) x 0.01.
C13_BreakdownSumsToTotal ==
  \A r \in Requests :
    Computed(r) =>
      Abs(PaidSum(response[r][1].tax_details) - response[r][1].total_tax)
        <= Len(tax_data[r][1].tax_brackets)

\* Three brackets contributed and the difference is a whole cent.
C13_Witness ==
  \E r \in Requests :
    /\ Computed(r)
    /\ Len(response[r][1].tax_details) = 3
    /\ Abs(PaidSum(response[r][1].tax_details) - response[r][1].total_tax) = 1

\* A bracket table that satisfies the data model, with non-negative rates:
\* each bracket is a range, the brackets ascend by min without overlap, and
\* only the last may omit max.
WellFormed(brackets) ==
  /\ \A i \in 1..Len(brackets) :
       /\ brackets[i].rate >= 0
       /\ "max" \in DOMAIN brackets[i] => brackets[i].min <= brackets[i].max
       /\ i < Len(brackets) => "max" \in DOMAIN brackets[i]
  /\ \A i \in 1..(Len(brackets) - 1) :
       /\ brackets[i].min < brackets[i + 1].min
       /\ brackets[i].max <= brackets[i + 1].min

\* C14: for one bracket table that satisfies the data model with
\* non-negative rates, and incomes a <= b, total_tax for a is <= total_tax
\* for b.
C14_TotalTaxMonotone ==
  \A r, q \in Requests :
    ( /\ Computed(r) /\ Computed(q)
      /\ tax_data[r] = tax_data[q]
      /\ WellFormed(tax_data[r][1].tax_brackets)
      /\ income[r][1] <= income[q][1] )
    => response[r][1].total_tax <= response[q][1].total_tax

\* Two incomes on either side of a bracket limit, the tax strictly higher
\* for the higher income.
C14_Witness ==
  \E r, q \in Requests :
    /\ Computed(r) /\ Computed(q)
    /\ tax_data[r] = tax_data[q]
    /\ WellFormed(tax_data[r][1].tax_brackets)
    /\ Len(tax_data[r][1].tax_brackets) = 3
    /\ income[r][1] = 2 /\ income[q][1] = 4
    /\ response[r][1].total_tax < response[q][1].total_tax

\* q is n / d rounded to the nearest integer (ties to even), d > 0.
IsRoundedDiv(n, d, q) ==
  /\ 2 * Abs(n - q * d) <= d
  /\ 2 * Abs(n - q * d) = d => q % 2 = 0

\* C16 as stated: for income > 0 the effective_rate is the returned, rounded
\* total_tax divided by income, times 100, rounded to 2 decimals; for
\* income <= 0 it is 0.
C16_RateFromRoundedTotal ==
  \A r \in Requests :
    Computed(r) =>
      IF income[r][1] > 0
        THEN IsRoundedDiv(100 * response[r][1].total_tax, income[r][1],
                          response[r][1].effective_rate)
        ELSE response[r][1].effective_rate = 0

\* C16 as amended: for income > 0 the effective_rate is the unrounded running
\* total divided by income, times 100, rounded to 2 decimals; for
\* income <= 0 it is 0.
C16_RateFromUnroundedTotal ==
  \A r \in Requests :
    Computed(r) =>
      IF income[r][1] > 0
        THEN IsRoundedDiv(10 * ExactTotal(income[r][1], tax_data[r][1].tax_brackets),
                          income[r][1], response[r][1].effective_rate)
        ELSE response[r][1].effective_rate = 0

\* A result whose effective_rate is not the one the rounded total gives.
C16_Witness ==
  \E r \in Requests :
    /\ Computed(r)
    /\ income[r][1] = 3
    /\ response[r][1].total_tax = 62
    /\ response[r][1].effective_rate = 2050

\* The min and max of a bracket or of a breakdown entry.
Range(b) == IF "max" \in DOMAIN b THEN <<b.min, b.max>> ELSE <<b.min>>

\* The brackets of a table whose amount for the income is not 0.
NonzeroBrackets(inc, brackets) ==
  SelectSeq(brackets, LAMBDA b : inc > b.min /\ SliceTax(inc, b) # 0)

\* C17 as stated: tax_details has, in bracket order, exactly one entry for
\* each bracket that contributed nonzero tax and none for any other bracket;
\* no entry has tax_paid equal to 0.
C17_OnlyNonzeroEntries ==
  \A r \in Requests :
    Computed(r) =>
      LET used == NonzeroBrackets(income[r][1], tax_data[r][1].tax_brackets)
          details == response[r][1].tax_details
      IN  /\ Len(details) = Len(used)
          /\ \A i \in 1..Len(details) :
               i <= Len(used) => Range(details[i]) = Range(used[i])
          /\ \A i \in 1..Len(details) : details[i].tax_paid # 0

\* C17 as amended: tax_details has, in bracket order, exactly one entry for
\* each bracket whose min is below the income and none for any other
\* bracket; the entry carries the bracket's min and max.  Its tax_paid is 0
\* when the bracket's rate is 0 or its amount rounds to 0.
C17_EntryPerBracketBelowIncome ==
  \A r \in Requests :
    Computed(r) =>
      LET used == Contributing(income[r][1], tax_data[r][1].tax_brackets)
          details == response[r][1].tax_details
      IN  /\ Len(details) = Len(used)
          /\ \A i \in 1..Len(used) : Range(details[i]) = Range(used[i])

\* A breakdown with an entry whose tax_paid is 0 beside one that is not.
C17_Witness ==
  \E r \in Requests :
    /\ Computed(r)
    /\ Len(response[r][1].tax_details) = 2
    /\ response[r][1].tax_details[1].tax_paid = 0
    /\ response[r][1].tax_details[2].tax_paid > 0

\* The entries of c other than year k's, in their order.
Others(c, k) == SelectSeq(c, LAMBDA e : e.key # k)

\* The step is r's entry into the store of @cached with the value fetched.
StoreBegins(r) == pc[r] = "get_data" /\ pc'[r] = "store"

\* The step is the write that ends r's store.
StoreEnds(r) == pc[r] = "store" /\ pc'[r] = "done"

\* C15: a hit moves the year to the most recent end of the cache and leaves
\* the other entries in their order; a store of a new year that finds
\* cache_max_size entries evicts exactly the entry at the least recent end;
\* and the new year is written as the most recent entry into the room so
\* made, every other entry staying as it was, so that wherever the write
\* meets cache_max_size entries one of them goes.
C15_EvictsLeastRecentlyUsed ==
  [][\A r \in Requests :
       /\ (ValidArrival(r) /\ tax_year'[r][1] \in Keys(cache)) =>
            cache' = Others(cache, tax_year'[r][1])
                       \o <<[key |-> tax_year'[r][1],
                             value |-> CacheValue(cache, tax_year'[r][1])]>>
       /\ (StoreBegins(r) /\ tax_year[r][1] \notin Keys(cache)) =>
            cache' = IF Len(cache) = cache_max_size THEN Tail(cache) ELSE cache
       /\ (StoreEnds(r) /\ tax_year[r][1] \notin Keys(cache)) =>
            /\ cache' = Append(cache, [key |-> tax_year[r][1],
                                       value |-> tax_data[r][1]])
            /\ Len(cache) < cache_max_size]_vars

\* The step is r's arrival with parameters validation rejects: one of them
\* absent, or a year that is not supported.
RejectedArrival(r) ==
  /\ pc[r] = "idle" /\ pc'[r] # "idle"
  /\ \/ income'[r] = <<>>
     \/ tax_year'[r] = <<>>
     \/ ~Supported(tax_year'[r][1])

\* C19: a request validation rejects is answered 400 at once, makes no
\* upstream request and leaves the cache, the order of its entries included,
\* as it was; and no request answered 400 has made an upstream request.
C19_RejectedLeavesCache ==
  [][\A r \in Requests :
       /\ RejectedArrival(r) =>
            /\ pc'[r] = "done"
            /\ response'[r][1].status = 400
       /\ (response'[r] # <<>> /\ response'[r][1].status = 400) =>
            /\ tries'[r] = 0
            /\ last_outcome'[r] = <<>>
            /\ tax_data'[r] = <<>>
            /\ pc[r] = "idle" => cache' = cache]_vars

\* A request has been answered 400 while the cache holds two years in order.
C19_Witness ==
  \E r \in Requests :
    /\ pc[r] = "done" /\ response[r] = <<UnsupportedResponse>>
    /\ tax_year[r] = <<2006>> /\ tries[r] = 0
    /\ Len(cache) = 2 /\ cache[1].key > cache[2].key

\* Data the calculator cannot use.
Unusable(data) == "tax_brackets" \notin DOMAIN data

\* A successful fetch stores an unusable body like any other and the
\* request answers 500.
C20_Stored(r) ==
  (FetchSucceeds(r) /\ Unusable(tax_data'[r][1])) =>
    /\ Values(cache', tax_year[r][1]) = {tax_data'[r][1]}
    /\ raised'[r] = <<[kind |-> "KeyError"]>>
    /\ response'[r] = <<InternalServerError>>

\* A request for a year whose cached value is unusable answers 500 without
\* an upstream request, and the entry stays.
C20_Hit(r) ==
  ( /\ ValidArrival(r)
    /\ tax_year'[r][1] \in Keys(cache)
    /\ Unusable(CacheValue(cache, tax_year'[r][1])) ) =>
    /\ pc'[r] = "done"
    /\ tries'[r] = 0
    /\ last_outcome'[r] = <<>>
    /\ response'[r] = <<InternalServerError>>
    /\ Values(cache', tax_year'[r][1]) = Values(cache, tax_year'[r][1])

\* C20 as stated: an unusable upstream body is stored; every later request
\* for the year answers 500 without contacting the upstream; and this lasts
\* until the entry is evicted: while the year is in the cache its value
\* stays the unusable one.
C20_UnusableUntilEvicted ==
  [][/\ \A r \in Requests : C20_Stored(r) /\ C20_Hit(r)
     /\ \A i \in 1..Len(cache) :
          (Unusable(cache[i].value) /\ cache[i].key \in Keys(cache')) =>
            Values(cache', cache[i].key) = {cache[i].value}]_vars

\* C20 as amended: an unusable upstream body is stored; every later request
\* for the year answers 500 without contacting the upstream while that
\* entry is the year's cached value; the entry goes when it is evicted, or
\* when a fetch for the same year that was under way when it was stored
\* succeeds and replaces it.
C20_UnusableUntilEvictedOrReplaced ==
  [][/\ \A r \in Requests : C20_Stored(r) /\ C20_Hit(r)
     /\ \A i \in 1..Len(cache) :
          ( /\ Unusable(cache[i].value)
            /\ cache[i].key \in Keys(cache')
            /\ Values(cache', cache[i].key) # {cache[i].value} ) =>
            \E q \in Requests :
              /\ FetchSucceeds(q)
              /\ tax_year[q][1] = cache[i].key
              /\ Values(cache', cache[i].key) = {tax_data'[q][1]}]_vars

\* A request has been answered 500 from a cached unusable body.
C20_Witness ==
  \E r \in Requests :
    /\ pc[r] = "done" /\ tries[r] = 0 /\ last_outcome[r] = <<>>
    /\ tax_data[r] = <<NoBrackets>>
    /\ raised[r] = <<[kind |-> "KeyError"]>>
    /\ response[r] = <<InternalServerError>>
    /\ Values(cache, tax_year[r][1]) = {NoBrackets}

\* C18: provided every upstream call returns a result or an error, a
\* request that has been received gets its response, whatever the other
\* request does: a request in the retry loop leaves it with a response of
\* status 200 or 500, and a request that needs no fetch is answered in the
\* step that receives it.
C18_EveryRequestAnswered ==
  \A r \in Requests :
    /\ (pc[r] = "get_data") ~>
         (pc[r] = "done" /\ response[r][1].status \in {200, 500})
    /\ [](pc[r] \notin {"idle", "get_data"} =>
            /\ pc[r] = "done"
            /\ response[r] # <<>>
            /\ response[r][1].status \in {200, 400, 500})

\* A request has used every attempt and been answered while the other, which
\* arrived before that answer, has not yet had any upstream result.
C18_Witness ==
  \E r, q \in Requests :
    /\ pc[r] = "done" /\ tries[r] = tax_api_max_retries
    /\ response[r] = <<InternalServerError>>
    /\ pc[q] = "get_data" /\ tries[q] = 0

====
